---- MODULE Spec2Model ----
(***************************************************************************)
(* State container of the finance simulator (lib/state-manager.ts) and the *)
(* collaborators it drives: the computation engine, the validation         *)
(* service and the browser key-value store.                                *)
(*                                                                         *)
(* The container is single-threaded but re-entrant: updateState fans every *)
(* transition out to the subscribers synchronously, and a subscriber may   *)
(* call back into the container.  The model therefore keeps an explicit    *)
(* call stack.  A step of the model is the code between two points where   *)
(* control can pass to a subscriber.                                       *)
(***************************************************************************)
EXTENDS Integers, Sequences, FiniteSets, TLC

VARIABLES
    state,            \* StateManager.state : AppState
    financeEngine,    \* StateManager.financeEngine (its dataset and scenario map)
    localStorage,     \* the two persisted keys finance_data / finance_scenarios
    subscribers,      \* StateManager.subscribers, in registration order
    validationCache,  \* StateManager.validationCache : serialization -> ValidationResult
    stack,            \* call stack, innermost frame last
    reentries,        \* calls made from subscriber callbacks in the current outermost call
    failures,         \* failures injected so far (engine, validator, store, subscriber)
    lastCycle,        \* history: the most recent run of validateAllData
    escaped,          \* history: the public method an exception last escaped from
    registry,         \* history: the subscribe calls made and the closures called
    now,              \* the clock read by new Date()
    client            \* objects the application holds: retained and returned snapshots

vars == <<state, financeEngine, localStorage, subscribers, validationCache,
          stack, reentries, failures, lastCycle, registry, now, client, escaped>>

---------------------------------------------------------------------------
(* Bounds of the model *)

\* calls a subscriber callback may make into the container per outermost call
MaxReentry == 1
\* length of the subscriber list
MaxSubscribers == 2
\* thrown exceptions (engine, validator, store, subscriber) per behaviour
MaxFailures == 1
\* subscribe calls per behaviour, where they are numbered
MaxRegistrations == 3
\* ticks of the clock per behaviour, where time passes
MaxClock == 2
\* updateState activations on top of one another, where its own failure is followed
MaxRecursion == 3
MaxInstances == 2

---------------------------------------------------------------------------
(* JavaScript values *)

\* null in a string-typed position (AppState.error)
null == "<null>"
\* null / undefined in an object-typed position
nullObject == [isNull |-> TRUE]
\* undefined in a string-typed position (an absent optional field)
undefined == "<undefined>"

\* the properties every plain object inherits from Object.prototype
ObjectPrototypeKeys == {"constructor", "toString"}

\* obj[key] on a plain object: own property, else inherited, else undefined
GetProperty(obj, key) ==
    IF key \in DOMAIN obj THEN obj[key]
    ELSE IF key \in ObjectPrototypeKeys THEN [inherited |-> key]
    ELSE nullObject

\* ToBoolean of an object-typed value
Truthy(v) == v # nullObject

\* ToBoolean of a string-typed value
TruthyString(s) == s \notin {null, undefined, ""}

\* Array.prototype.join
RECURSIVE Join(_, _)
Join(items, sep) ==
    IF items = <<>> THEN ""
    ELSE IF Len(items) = 1 THEN items[1]
    ELSE items[1] \o sep \o Join(Tail(items), sep)

\* Array.prototype.flatMap over a sequence of sequences
RECURSIVE Flatten(_)
Flatten(seqs) == IF seqs = <<>> THEN <<>> ELSE Head(seqs) \o Flatten(Tail(seqs))

\* Array.prototype.indexOf, 1-based; 0 when absent
IndexOf(items, x) ==
    IF \E i \in 1..Len(items) : items[i] = x
    THEN CHOOSE i \in 1..Len(items) : items[i] = x /\ \A j \in 1..(i - 1) : items[j] # x
    ELSE 0

\* Array.prototype.splice(index, 1)
RemoveAt(items, i) == [j \in 1..(Len(items) - 1) |-> IF j < i THEN items[j] ELSE items[j + 1]]

---------------------------------------------------------------------------
(* Datasets and payloads *)

\* the dataset the engine starts from
DefaultData ==
    [menus |-> "menu0", salesModel |-> "sales0", utilities |-> <<"ok">>,
     labor |-> <<>>, fixedCosts |-> <<>>]

\* a scenario definition carries at least id and name
Scenario(id) == [id |-> id, name |-> id]

DefaultScenarios == [id \in {"base", "s2"} |-> Scenario(id)]

\* payloads offered to the mutation operations
MenuIds == {"m1"}
MenuUpdates == {"menu1", "menuBad"}
SalesUpdates == {"sales0", "salesBad"}
UtilityLists == {<<"ok">>, <<"bad1">>}
LaborLists == {<<>>, <<"ok", "bad1">>}
FixedCostLists == {<<"ok">>, <<"bad1", "ok", "bad2">>}
ScenarioIds == {"base", "s2", "nonexistent", "constructor"}
ImportTexts == {"jsonBase", "garbage", "empty"}

\* JSON.stringify of a list of strings
StringifyList(items) == "[" \o Join(items, ",") \o "]"

\* JSON.stringify(this.state.data)
Stringify(d) ==
    IF d = nullObject THEN "null"
    ELSE "{menus:" \o d.menus \o ",salesModel:" \o d.salesModel
         \o ",utilities:" \o StringifyList(d.utilities)
         \o ",labor:" \o StringifyList(d.labor)
         \o ",fixedCosts:" \o StringifyList(d.fixedCosts) \o "}"

---------------------------------------------------------------------------
(* Validation service: one rule per data category and one for the whole    *)
(* dataset, each returning { isValid, errors, warnings }.                   *)

ValidationResult(errors, warnings) ==
    [isValid |-> errors = <<>>, errors |-> errors, warnings |-> warnings]

validateMenuItem(updates) ==
    IF updates = "menuBad"
    THEN ValidationResult(<<"Menu name is required", "Price must be positive">>, <<>>)
    ELSE ValidationResult(<<>>, <<>>)

validateSalesModel(updates) ==
    IF updates = "salesBad"
    THEN ValidationResult(<<"Forecast must be non-negative">>, <<>>)
    ELSE ValidationResult(<<>>, <<>>)

\* the rule shared by the three list categories: what is wrong with one element
ItemErrors(item) ==
    CASE item = "bad1" -> <<"Name is required">>
      [] item = "bad2" -> <<"Amount must be non-negative", "Unit is required">>
      [] OTHER -> <<>>

validateUtilityItem(item) == ValidationResult(ItemErrors(item), <<>>)

validateLaborItem(item) == ValidationResult(ItemErrors(item), <<>>)

validateFixedCost(item) == ValidationResult(ItemErrors(item), <<>>)

\* the whole-dataset rule
validateAllData(d) ==
    IF d = nullObject
    THEN ValidationResult(<<"No data">>, <<>>)
    ELSE ValidationResult(<<>>,
             (IF d.fixedCosts = <<>> THEN <<"No fixed costs defined">> ELSE <<>>)
             \o (IF d.menus = "menu0" THEN <<"Menu has no price">> ELSE <<>>))

---------------------------------------------------------------------------
(* Computation engine and the store it persists to.                        *)

EmptyMap == [id \in {} |-> nullObject]

\* new FinanceEngine()
NewEngine == [data |-> nullObject, scenarios |-> EmptyMap]

NoStorage == [data |-> nullObject, scenarios |-> EmptyMap]

\* FinanceEngine.init(): the persisted dataset when there is one, else the defaults
EngineInit(storage) ==
    IF storage.data # nullObject
    THEN [data |-> storage.data, scenarios |-> storage.scenarios]
    ELSE [data |-> DefaultData, scenarios |-> DefaultScenarios]

\* FinanceEngine.updateMenu / updateSalesModel / updateUtilities / updateLabor /
\* updateFixedCosts: replace one category of the engine's dataset
EngineUpdate(engine, category, payload) ==
    IF engine.data = nullObject THEN engine
    ELSE [engine EXCEPT !.data = [engine.data EXCEPT ![category] = payload]]

\* FinanceEngine.compute(): derived figures of the engine's dataset
EngineCompute(engine) == [computedFrom |-> engine.data]

\* FinanceEngine.importJSON(text): the result object and the engine afterwards
EngineImportResult(text) ==
    CASE text = "jsonBase" -> [success |-> TRUE, error |-> undefined]
      [] text = "garbage"  -> [success |-> FALSE, error |-> "Invalid JSON"]
      [] OTHER             -> [success |-> FALSE, error |-> undefined]

EngineImport(engine, text) ==
    IF EngineImportResult(text).success
    THEN [data |-> DefaultData, scenarios |-> [id \in {"base"} |-> Scenario(id)]]
    ELSE engine

\* FinanceEngine.exportJSON()
EngineExport(engine) == Stringify(engine.data)

\* FinanceEngine.save()
EngineSave(engine) == [data |-> engine.data, scenarios |-> engine.scenarios]

\* the message of an exception thrown by a collaborator
Thrown == "boom"

\* the ways a call into a collaborator can end
Outcomes == IF failures < MaxFailures THEN {"ok", "throw"} ELSE {"ok"}

---------------------------------------------------------------------------
(* Call stack *)

\* identities of the callbacks handed to subscribe
SubIds == 1..MaxSubscribers

Top == stack[Len(stack)]

Below == SubSeq(stack, 1, Len(stack) - 1)

\* what a subscriber sees of a transition: its kind, and for LOADING the flag
Label(update) ==
    IF update.type = "LOADING_UPDATE" /\ update.payload # nullObject
    THEN (IF update.payload.isLoading THEN "LOADING_UPDATE(true)" ELSE "LOADING_UPDATE(false)")
    ELSE update.type

\* activation of a public method (or of the constructor), with what it did so far
OpFrame(op, arg, pc) ==
    [k |-> "op", op |-> op, arg |-> arg, pc |-> pc,
     emitted |-> <<>>,                      \* transitions this activation applied
     recv |-> [s \in SubIds |-> <<>>],      \* of those, the ones delivered to each callback
     failed |-> {},                         \* what threw during this activation
     engineCalled |-> FALSE,                \* an engine update method was entered
     rejected |-> FALSE,                    \* the payload failed its category rule
     callers |-> {},                        \* callbacks that called the container meanwhile
     unsubscribed |-> {},                   \* callbacks removed from the list meanwhile
     subs0 |-> subscribers,                 \* subscriber list at entry
     entry |-> [data |-> state.data,        \* of the AppState at entry
                scenarios |-> state.scenarios,
                currentScenario |-> state.currentScenario],
     result |-> nullObject]                 \* value returned to the caller

\* activation of updateState(update)
UpdateFrame(update) ==
    [k |-> "us", update |-> update, pc |-> "apply", i |-> 1, len |-> 0,
     hadError |-> FALSE]                    \* error was set before the assignment

\* activation of a subscriber callback inside notifySubscribers
CallbackFrame(s) == [k |-> "cb", sub |-> s]

Running(op, pc) == Len(stack) > 0 /\ Top.k = "op" /\ Top.op = op /\ Top.pc = pc

\* a caller that does not wait for the running method to return
CanCallAnytime == TRUE

\* a public method can be entered by the application, or by a running callback
CanCall == Len(stack) = 0 \/ (Len(stack) > 0 /\ Top.k = "cb" /\ reentries < MaxReentry)

\* the frames of the caller, noting which callback is calling
CallerFrames ==
    IF Len(stack) = 0 THEN <<>>
    ELSE [j \in DOMAIN stack |->
            IF stack[j].k = "op" /\ Top.k = "cb"
            THEN [stack[j] EXCEPT !.callers = @ \cup {Top.sub}]
            ELSE stack[j]]

\* enter a public method: its frame, and the updateState call it makes first (if any)
Enter(frame, updates) ==
    /\ CanCall
    /\ stack' = CallerFrames
                \o <<[frame EXCEPT !.emitted = [j \in DOMAIN updates |-> Label(updates[j])]]>>
                \o [j \in DOMAIN updates |-> UpdateFrame(updates[j])]
    /\ reentries' = IF Len(stack) = 0 THEN 0 ELSE reentries + 1
    /\ escaped' = IF Len(stack) = 0 THEN "none" ELSE escaped

\* the running method goes on as `frame` and calls updateState(update)
Emit(frame, update) ==
    stack' = Below \o <<[frame EXCEPT !.emitted = Append(@, Label(update))]>>
                   \o <<UpdateFrame(update)>>

\* the running method goes on as `frame` without a transition
Goto(frame) == stack' = Below \o <<frame>>

Loading(flag) == [type |-> "LOADING_UPDATE", payload |-> [isLoading |-> flag]]

Error(message) == [type |-> "ERROR_UPDATE", payload |-> [error |-> message]]

Data(data, scenarios) ==
    [type |-> "DATA_UPDATE", payload |-> [data |-> data, scenarios |-> scenarios]]

\* a collaborator threw: one more failure of the behaviour
Throw(out) == failures' = IF out = "throw" THEN failures + 1 ELSE failures

---------------------------------------------------------------------------
(* StateManager: construction and the transition primitive *)

\* the clock starts at the construction of the container
Epoch == 0

getInitialState ==
    [data |-> nullObject, scenarios |-> EmptyMap, currentScenario |-> "base",
     computationResult |-> nullObject, validationResults |-> <<>>,
     isLoading |-> FALSE, error |-> null, lastUpdated |-> Epoch]

\* no subscribe call made yet: the callback of each call, the call that made each
\* entry of the subscriber list, and how often (0, 1, more) each call's closure was called
NoRegistry == [of |-> <<>>, entries |-> <<>>, calls |-> <<>>]

\* the application holds no object of the container yet: neither the argument of a
\* notification nor a result of getState
NoClient == [retained |-> nullObject, copy |-> nullObject]

\* the fields of AppState that hold objects
NestedFields == {"data", "scenarios", "validationResults"}

\* the fields whose object a transition replaces by another one
Replaced(type) ==
    CASE type = "DATA_UPDATE" -> {"data", "scenarios"}
      [] type = "VALIDATION_UPDATE" -> {"validationResults"}
      [] OTHER -> {}

\* what a transition does to the objects the application holds: a result of getState
\* is no longer one of the state since the last transition, and shares no object with
\* the state that was replaced
AfterTransition(c, update) ==
    IF c.copy = nullObject THEN c
    ELSE [c EXCEPT !.copy.fresh = FALSE, !.copy.aliased = @ \ Replaced(update.type)]

\* the most recent run of validateAllData: the serialization it saw, whether it invoked
\* the whole-dataset rule, whether the rule threw, whether the cache was cleared since
\* that run, and whether the run before it saw the same serialization with no clear of
\* the cache in between
NoCycle == [hash |-> undefined, invoked |-> FALSE, threw |-> FALSE, cleared |-> FALSE,
            repeat |-> FALSE]

Init ==
    /\ state = getInitialState
    /\ financeEngine = NewEngine
    /\ localStorage = NoStorage
    /\ subscribers = <<>>
    /\ validationCache = EmptyMap
    /\ stack = <<OpFrame("constructor", <<>>, "init")>>
    /\ reentries = 0
    /\ failures = 0
    /\ lastCycle = NoCycle
    /\ escaped = "none"
    /\ registry = NoRegistry
    /\ now = Epoch
    /\ client = NoClient

\* the switch of updateState
\* an ERROR transition that leaves isLoading as it was
ErrorKeepingLoading(st, error) == [st EXCEPT !.error = error]

\* case 'ERROR_UPDATE'
ApplyError(st, error) == [st EXCEPT !.error = error, !.isLoading = FALSE]

\* a LOADING transition that leaves error as it was
LoadingKeepingError(st, isLoading) == [st EXCEPT !.isLoading = isLoading]

\* case 'LOADING_UPDATE'
ApplyLoading(st, isLoading) ==
    [st EXCEPT !.isLoading = isLoading, !.error = IF isLoading THEN null ELSE @]

\* this.state.lastUpdated = new Date().toISOString()
Refresh(st, time) == [st EXCEPT !.lastUpdated = time]

\* an assignment that appends the results to the ones already held
AppendResults(st, results) == st.validationResults \o results

\* case 'VALIDATION_UPDATE': the results of the payload replace the ones held
AssignResults(st, results) == results

ApplyUpdate(st, update) ==
    CASE update.type = "DATA_UPDATE" ->
            [st EXCEPT !.data = update.payload.data, !.scenarios = update.payload.scenarios]
      [] update.type = "SCENARIO_UPDATE" ->
            [st EXCEPT !.currentScenario = update.payload.scenarioId]
      [] update.type = "COMPUTATION_UPDATE" ->
            [st EXCEPT !.computationResult = update.payload.result]
      [] update.type = "VALIDATION_UPDATE" ->
            [st EXCEPT !.validationResults = AssignResults(st, update.payload.results)]
      [] update.type = "ERROR_UPDATE" ->
            ApplyError(st, update.payload.error)
      [] update.type = "LOADING_UPDATE" ->
            ApplyLoading(st, update.payload.isLoading)
      [] OTHER -> st

\* the kinds of transition the switch has a case for
Kinds ==
    {"DATA_UPDATE", "SCENARIO_UPDATE", "COMPUTATION_UPDATE", "VALIDATION_UPDATE",
     "ERROR_UPDATE", "LOADING_UPDATE"}

\* update.payload.<field> with no payload: the case of the switch throws a TypeError
\* before it assigns anything
HandlerThrows(update) == update.type \in Kinds /\ update.payload = nullObject

TypeError == "Cannot read properties of undefined"

\* a catch block that calls updateState again with the update that failed
Retry(update) == update

\* the update of the catch block: ERROR "State update failed: " + error.message
Recovery(update) == Error("State update failed: " \o TypeError)

\* updateState, up to the fan-out: assign the fields, then start forEach
UpdateState ==
    /\ Len(stack) > 0 /\ Top.k = "us" /\ Top.pc = "apply"
    /\ ~HandlerThrows(Top.update)
    /\ state' = Refresh(ApplyUpdate(state, Top.update), now)
    /\ client' = AfterTransition(client, Top.update)
    /\ stack' = Below \o <<[Top EXCEPT !.pc = "notify", !.i = 1, !.len = Len(subscribers),
                                       !.hadError = state.error # null]>>
    /\ UNCHANGED <<financeEngine, localStorage, subscribers, validationCache,
                   reentries, failures, lastCycle, registry, now, escaped>>

\* the method whose updateState call the frame at position j is, directly or through
\* the catch block of updateState: the nearest method activation below it
Owner(j) ==
    CHOOSE m \in 1..(j - 1) :
      stack[m].k = "op" /\ \A n \in (m + 1)..(j - 1) : stack[n].k # "op"

\* the updateState activations at the top of the stack, one calling the next
Recursion ==
    Cardinality({j \in DOMAIN stack :
                   \A n \in j..Len(stack) : stack[n].k = "us"})

\* updateState, when the case of the switch throws: the catch block calls updateState
\* with an ERROR transition, and the transition asked for is not applied
UpdateStateThrows ==
    /\ Len(stack) > 0 /\ Top.k = "us" /\ Top.pc = "apply"
    /\ HandlerThrows(Top.update)
    /\ Recursion < MaxRecursion
    /\ stack' = [Below EXCEPT ![Owner(Len(stack))].emitted =
                                 Append(SubSeq(@, 1, Len(@) - 1), Label(Recovery(Top.update)))]
                \o <<[Top EXCEPT !.pc = "caught"]>>
                \o <<UpdateFrame(Recovery(Top.update))>>
    /\ UNCHANGED <<state, financeEngine, localStorage, subscribers, validationCache,
                   reentries, failures, lastCycle, registry, now, client, escaped>>

\* the recursive call has returned: the catch block and updateState end
UpdateStateCaught ==
    /\ Len(stack) > 0 /\ Top.k = "us" /\ Top.pc = "caught"
    /\ stack' = Below
    /\ UNCHANGED <<state, financeEngine, localStorage, subscribers, validationCache,
                   reentries, failures, lastCycle, registry, now, client, escaped>>

\* notifySubscribers: forEach visits index i when it is still an index of the array
NotifySubscribers ==
    /\ Len(stack) > 0 /\ Top.k = "us" /\ Top.pc = "notify" /\ Top.i <= Top.len
    /\ LET n == Len(stack)
           s == subscribers[Top.i]
       IN  IF Top.i <= Len(subscribers)
           THEN stack' = [j \in 1..(n + 1) |->
                            IF j = n + 1 THEN CallbackFrame(s)
                            ELSE IF j = n THEN [Top EXCEPT !.i = @ + 1]
                            ELSE IF j = Owner(n)
                                 THEN [stack[j] EXCEPT !.recv[s] = Append(@, Label(Top.update))]
                            ELSE stack[j]]
           ELSE stack' = Below \o <<[Top EXCEPT !.i = @ + 1]>>
    /\ UNCHANGED <<state, financeEngine, localStorage, subscribers, validationCache,
                   reentries, failures, lastCycle, registry, now, client, escaped>>

\* the frames below the top one, with a failure recorded in the method at position j
Blame(frames, j, what) ==
    [m \in DOMAIN frames |-> IF m = j THEN [frames[m] EXCEPT !.failed = @ \cup {what}]
                             ELSE frames[m]]

\* an updateState that saves after every transition
EveryTransition ==
    {"DATA_UPDATE", "SCENARIO_UPDATE", "COMPUTATION_UPDATE", "VALIDATION_UPDATE",
     "ERROR_UPDATE", "LOADING_UPDATE"}

\* if (update.type === 'DATA_UPDATE') this.autoSave()
AutoSaved == {"DATA_UPDATE"}

\* end of updateState: the fan-out is over; a DATA transition is auto-saved
AutoSave ==
    /\ Len(stack) > 0 /\ Top.k = "us" /\ Top.pc = "notify" /\ Top.i > Top.len
    /\ IF Top.update.type \in AutoSaved
       THEN \E out \in Outcomes :
              /\ Throw(out)
              /\ localStorage' = IF out = "ok" THEN EngineSave(financeEngine) ELSE localStorage
              /\ stack' = IF out = "ok" THEN Below
                          ELSE Blame(Below, Owner(Len(stack)), "store")
       ELSE /\ stack' = Below
            /\ UNCHANGED <<localStorage, failures>>
    /\ UNCHANGED <<state, financeEngine, subscribers, validationCache,
                   reentries, lastCycle, registry, now, client, escaped>>

---------------------------------------------------------------------------
(* StateManager: subscription *)

InCallback == Len(stack) > 0 /\ Top.k = "cb"

\* subscribe and the closures it returns are called by the application or by a callback
CanTouchSubscribers == Len(stack) = 0 \/ (InCallback /\ reentries < MaxReentry)

TouchSubscribers ==
    /\ stack' = CallerFrames
    /\ reentries' = IF Len(stack) = 0 THEN 0 ELSE reentries + 1
    /\ escaped' = IF Len(stack) = 0 THEN "none" ELSE escaped

\* subscribe(callback)
Subscribe(cb) ==
    /\ CanTouchSubscribers
    /\ Len(subscribers) < MaxSubscribers
    /\ subscribers' = Append(subscribers, cb)
    /\ TouchSubscribers
    /\ UNCHANGED <<state, financeEngine, localStorage, validationCache, failures, lastCycle,
                   now, client>>

\* a splice that removes nothing
KeepAll(items, i) == items

\* this.subscribers.splice(index, 1), index > -1
Splice(items, i) == IF i > 0 THEN RemoveAt(items, i) ELSE items

\* the function subscribe(callback) returned
Unsubscribe(cb) ==
    /\ CanTouchSubscribers
    /\ subscribers' = Splice(subscribers, IndexOf(subscribers, cb))
    /\ stack' = [j \in DOMAIN stack |->
                   IF stack[j].k = "op"
                   THEN [stack[j] EXCEPT !.callers = @ \cup {Top.sub},
                                         !.unsubscribed = @ \cup {cb}]
                   ELSE stack[j]]
    /\ reentries' = IF Len(stack) = 0 THEN 0 ELSE reentries + 1
    /\ escaped' = IF Len(stack) = 0 THEN "none" ELSE escaped
    /\ UNCHANGED <<state, financeEngine, localStorage, validationCache, failures, lastCycle,
                   now, client>>

\* the application registers a callback it has not registered at the moment
SubscribeOnce(cb) ==
    /\ \A j \in DOMAIN subscribers : subscribers[j] # cb
    /\ Subscribe(cb)
    /\ UNCHANGED registry

\* the application calls a closure subscribe returned for cb
UnsubscribeAny(cb) == Unsubscribe(cb) /\ UNCHANGED registry

\* the application registers a callback, possibly one that is registered already, as
\* long as no closure returned for it was called; the call is numbered
SubscribeCall(cb) ==
    /\ Len(registry.of) < MaxRegistrations
    /\ \A r \in DOMAIN registry.of : registry.of[r] = cb => registry.calls[r] = 0
    /\ Subscribe(cb)
    /\ registry' = [of |-> Append(registry.of, cb),
                    entries |-> Append(registry.entries, Len(registry.of) + 1),
                    calls |-> Append(registry.calls, 0)]

\* the application calls the closure that subscribe call number r returned
UnsubscribeCall(r) ==
    /\ r \in DOMAIN registry.of
    /\ Unsubscribe(registry.of[r])
    /\ registry' = [registry EXCEPT
                      !.entries = Splice(@, IndexOf(subscribers, registry.of[r])),
                      !.calls[r] = IF @ < 2 THEN @ + 1 ELSE @]

\* a subscriber callback returns
CallbackReturns ==
    /\ InCallback
    /\ stack' = Below
    /\ UNCHANGED <<state, financeEngine, localStorage, subscribers, validationCache,
                   reentries, failures, lastCycle, registry, now, client, escaped>>

\* a throw that ends the forEach: the rest of the list is not visited
AbandonFanOut(frames) ==
    [frames EXCEPT ![Len(frames)].i = frames[Len(frames)].len + 1]

\* catch (error) { console.error(...) } inside the forEach callback: the loop goes on
ContinueFanOut(frames) == frames

\* a subscriber callback throws: notifySubscribers catches and logs
CallbackThrows ==
    /\ InCallback
    /\ failures < MaxFailures
    /\ failures' = failures + 1
    /\ stack' = Blame(ContinueFanOut(Below), Owner(Len(stack) - 1), "subscriber")
    /\ UNCHANGED <<state, financeEngine, localStorage, subscribers, validationCache,
                   reentries, lastCycle, registry, now, client, escaped>>

---------------------------------------------------------------------------
(* StateManager: exceptions *)

\* the methods whose body runs in a try block whose catch applies an ERROR transition
\* the methods with a catch block, with an exportData that reports through the state
CatchesErrorsAndExport(op) ==
    op \in {"constructor", "updateMenu", "updateSalesModel", "updateUtilities",
            "updateLabor", "updateFixedCosts", "importData", "reset", "exportData"}

\* the methods with a catch block, initializeState left out
CatchesErrorsButConstructor(op) ==
    op \in {"updateMenu", "updateSalesModel", "updateUtilities",
            "updateLabor", "updateFixedCosts", "importData", "reset"}

\* the methods with a catch block, updateLabor left out
CatchesErrorsButLabor(op) ==
    op \in {"constructor", "updateMenu", "updateSalesModel", "updateUtilities",
            "updateFixedCosts", "importData", "reset"}

CatchesErrors(op) ==
    op \in {"constructor", "updateMenu", "updateSalesModel", "updateUtilities",
            "updateLabor", "updateFixedCosts", "importData", "reset"}

\* the stack once an exception has left the running method: the method is gone, and so
\* is the callback that called it (notifySubscribers catches there)
Unwound == IF Len(stack) = 1 THEN <<>> ELSE SubSeq(stack, 1, Len(stack) - 2)

\* a catch block that reports the exception's own message, without naming the method
RaiseUnnamed(frame, what, message) ==
    IF CatchesErrors(frame.op)
    THEN /\ Emit([frame EXCEPT !.pc = "ret", !.failed = @ \cup {what}], Error(Thrown))
         /\ UNCHANGED escaped
    ELSE /\ stack' = Unwound
         /\ escaped' = IF Len(stack) = 1 THEN frame.op ELSE escaped

\* an exception with `message` reaches the catch block of the running method `frame`
Raise(frame, what, message) ==
    IF CatchesErrors(frame.op)
    THEN /\ Emit([frame EXCEPT !.pc = "ret", !.failed = @ \cup {what},
                               !.result = IF frame.op = "importData"
                                          THEN [success |-> FALSE, error |-> Thrown]
                                          ELSE @],
                 Error(message))
         /\ UNCHANGED escaped
    ELSE /\ stack' = Unwound
         /\ escaped' = IF Len(stack) = 1 THEN frame.op ELSE escaped

---------------------------------------------------------------------------
(* StateManager: the five mutation operations *)

\* errors of the first failing result only
FirstFailingErrors(results) ==
    IF \E j \in DOMAIN results : ~results[j].isValid
    THEN results[CHOOSE j \in DOMAIN results :
                   ~results[j].isValid /\ \A m \in 1..(j - 1) : results[m].isValid].errors
    ELSE <<>>

\* errors of the failing results, in order (filter(!isValid).flatMap(errors))
RECURSIVE FailingErrors(_)
FailingErrors(results) ==
    IF results = <<>> THEN <<>>
    ELSE (IF Head(results).isValid THEN <<>> ELSE Head(results).errors)
         \o FailingErrors(Tail(results))

\* a gate that looks at the first result only
FirstInvalid(results) == Len(results) > 0 /\ ~results[1].isValid

\* invalidValidations.length > 0
AnyInvalid(results) == \E j \in DOMAIN results : ~results[j].isValid

\* a DATA payload built from the scenario map the operation found at its entry
ScenariosAtEntry(frame) == frame.entry.scenarios

\* scenarios: this.state.scenarios, read when the DATA payload is built
PreviousScenarios(frame) == state.scenarios

\* the body shared by the five operations, after LOADING(true): validation gate,
\* engine update, re-read, DATA transition
Mutation(op, results, category, payload, rejectPrefix, failPrefix) ==
    /\ Running(op, "validate")
    /\ IF AnyInvalid(results)
       THEN /\ Emit([Top EXCEPT !.pc = "ret", !.rejected = TRUE],
                    Error(rejectPrefix \o Join(FailingErrors(results), ", ")))
            /\ UNCHANGED <<financeEngine, failures, escaped>>
       ELSE \E out \in Outcomes, applied \in BOOLEAN :
              /\ out = "ok" => applied
              /\ Throw(out)
              /\ financeEngine' = IF applied THEN EngineUpdate(financeEngine, category, payload)
                                  ELSE financeEngine
              /\ IF out = "ok"
                 THEN /\ Emit([Top EXCEPT !.pc = "compute", !.engineCalled = TRUE],
                              Data(financeEngine'.data, PreviousScenarios(Top)))
                      /\ UNCHANGED escaped
                 ELSE Raise([Top EXCEPT !.engineCalled = TRUE], "engine", failPrefix \o Thrown)
    /\ UNCHANGED <<state, localStorage, subscribers, validationCache, reentries, lastCycle, registry, now, client>>

\* entry of a mutation operation: LOADING(true)
BeginMutation(op, arg) ==
    /\ Enter(OpFrame(op, arg, "validate"), <<Loading(TRUE)>>)
    /\ UNCHANGED <<state, financeEngine, localStorage, subscribers, validationCache,
                   failures, lastCycle, registry, now, client>>

updateMenu ==
    \/ \E menuId \in MenuIds, updates \in MenuUpdates :
         BeginMutation("updateMenu", <<menuId, updates>>)
    \/ /\ Running("updateMenu", "validate")
       /\ Mutation("updateMenu", <<validateMenuItem(Top.arg[2])>>, "menus", Top.arg[2],
                   "Menu validation failed: ", "Failed to update menu: ")

updateSalesModel ==
    \/ \E updates \in SalesUpdates : BeginMutation("updateSalesModel", updates)
    \/ /\ Running("updateSalesModel", "validate")
       /\ Mutation("updateSalesModel", <<validateSalesModel(Top.arg)>>, "salesModel", Top.arg,
                   "Sales model validation failed: ", "Failed to update sales model: ")

updateUtilities ==
    \/ \E utilities \in UtilityLists : BeginMutation("updateUtilities", utilities)
    \/ /\ Running("updateUtilities", "validate")
       /\ Mutation("updateUtilities",
                   [j \in DOMAIN Top.arg |-> validateUtilityItem(Top.arg[j])],
                   "utilities", Top.arg,
                   "Utility validation failed: ", "Failed to update utilities: ")

updateLabor ==
    \/ \E labor \in LaborLists : BeginMutation("updateLabor", labor)
    \/ /\ Running("updateLabor", "validate")
       /\ Mutation("updateLabor",
                   [j \in DOMAIN Top.arg |-> validateLaborItem(Top.arg[j])],
                   "labor", Top.arg,
                   "Labor validation failed: ", "Failed to update labor: ")

updateFixedCosts ==
    \/ \E fixedCosts \in FixedCostLists : BeginMutation("updateFixedCosts", fixedCosts)
    \/ /\ Running("updateFixedCosts", "validate")
       /\ Mutation("updateFixedCosts",
                   [j \in DOMAIN Top.arg |-> validateFixedCost(Top.arg[j])],
                   "fixedCosts", Top.arg,
                   "Fixed cost validation failed: ", "Failed to update fixed costs: ")

---------------------------------------------------------------------------
(* StateManager: computation and validation *)

\* the methods that run computeAndValidate
Pipelines == {"constructor", "updateMenu", "updateSalesModel", "updateUtilities",
              "updateLabor", "updateFixedCosts", "importData", "reset"}

InPipeline(pc) == Len(stack) > 0 /\ Top.k = "op" /\ Top.op \in Pipelines /\ Top.pc = pc

\* where the caller of computeAndValidate goes on
AfterCycle(op) == IF op \in {"importData", "reset"} THEN "clearCache" ELSE "ret"

\* a catch block after which the whole-dataset rule still runs
GoesOnValidating(op) == "validateAll"

\* the catch block is the end of computeAndValidate: its caller goes on
Aborted(op) == AfterCycle(op)

\* computeAndValidate: compute and the COMPUTATION transition, or its catch block;
\* after validateAllData, LOADING(false)
computeAndValidate ==
    \/ /\ InPipeline("compute")
       /\ \E out \in Outcomes :
            /\ Throw(out)
            /\ IF out = "ok"
               THEN Emit([Top EXCEPT !.pc = "validateAll"],
                         [type |-> "COMPUTATION_UPDATE",
                          payload |-> [result |-> EngineCompute(financeEngine)]])
               ELSE Emit([Top EXCEPT !.pc = Aborted(Top.op), !.failed = @ \cup {"compute"}],
                         Error("Computation failed: " \o Thrown))
       /\ UNCHANGED <<state, financeEngine, localStorage, subscribers, validationCache,
                      reentries, lastCycle, registry, now, client, escaped>>
    \/ /\ InPipeline("loadingFalse")
       /\ Emit([Top EXCEPT !.pc = AfterCycle(Top.op)], Loading(FALSE))
       /\ UNCHANGED <<state, financeEngine, localStorage, subscribers, validationCache,
                      reentries, failures, lastCycle, registry, now, client, escaped>>

\* Map.get: the cached result of a serialization, undefined when there is none
\* a lookup that never finds anything
CacheMiss(cache, hash) == nullObject

\* Map.get
CacheGet(cache, hash) == IF hash \in DOMAIN cache THEN cache[hash] ELSE nullObject

\* Map.set
CacheSet(cache, hash, result) ==
    [h \in DOMAIN cache \cup {hash} |-> IF h = hash THEN result ELSE cache[h]]

\* the record of a run of validateAllData
Cycle(hash, invoked, threw) ==
    [hash |-> hash, invoked |-> invoked, threw |-> threw, cleared |-> FALSE,
     repeat |-> lastCycle.hash = hash /\ ~lastCycle.cleared]

Validation(results) == [type |-> "VALIDATION_UPDATE", payload |-> [results |-> results]]

\* a catch block that reports the failure as an ERROR transition
ReportsFailure(frame) == Emit(frame, Error("Validation failed: " \o Thrown))

\* catch (error) { console.error('Validation failed:', error) }: the method ends
LogsOnly(frame) == Goto(frame)

\* validateAllData: the cached result of the serialized dataset, else the rule's
\* result, which is cached; a throw of the rule is logged and swallowed
validateAllDataStep ==
    /\ InPipeline("validateAll")
    /\ LET dataHash == Stringify(state.data)
           cachedResult == CacheGet(validationCache, dataHash)
       IN  IF Truthy(cachedResult)
           THEN /\ Emit([Top EXCEPT !.pc = "loadingFalse"], Validation(<<cachedResult>>))
                /\ lastCycle' = Cycle(dataHash, FALSE, FALSE)
                /\ UNCHANGED <<validationCache, failures>>
           ELSE \E out \in Outcomes :
                  /\ Throw(out)
                  /\ IF out = "ok"
                     THEN LET validationResult == validateAllData(state.data)
                          IN  /\ validationCache' =
                                     CacheSet(validationCache, dataHash, validationResult)
                              /\ Emit([Top EXCEPT !.pc = "loadingFalse"],
                                      Validation(<<validationResult>>))
                              /\ lastCycle' = Cycle(dataHash, TRUE, FALSE)
                     ELSE /\ LogsOnly([Top EXCEPT !.pc = "loadingFalse",
                                                  !.failed = @ \cup {"validator"}])
                          /\ lastCycle' = Cycle(dataHash, TRUE, TRUE)
                          /\ UNCHANGED validationCache
    /\ UNCHANGED <<state, financeEngine, localStorage, subscribers, reentries, escaped,
                   registry, now, client>>

\* a clear that keeps the entries
CacheKeep(cache) == cache

\* Map.clear
CacheClear(cache) == EmptyMap

\* this.validationCache.clear(), the last statement of a successful import or reset
ClearCache ==
    /\ InPipeline("clearCache")
    /\ validationCache' = CacheClear(validationCache)
    /\ lastCycle' = [lastCycle EXCEPT !.cleared = TRUE]
    /\ Goto([Top EXCEPT !.pc = "ret"])
    /\ UNCHANGED <<state, financeEngine, localStorage, subscribers, reentries, failures,
                   escaped, registry, now, client>>

\* initializeState, called by the constructor
initializeState ==
    /\ Running("constructor", "init")
    /\ \E out \in Outcomes :
         /\ Throw(out)
         /\ IF out = "ok"
            THEN /\ financeEngine' = EngineInit(localStorage)
                 /\ Emit([Top EXCEPT !.pc = "compute"],
                         Data(financeEngine'.data, financeEngine'.scenarios))
                 /\ UNCHANGED escaped
            ELSE /\ UNCHANGED financeEngine
                 /\ Raise(Top, "engine", "Failed to initialize: " \o Thrown)
    /\ UNCHANGED <<state, localStorage, subscribers, validationCache, reentries, lastCycle, registry, now, client>>

---------------------------------------------------------------------------
(* StateManager: import, export, scenario selection, error dismissal, reset *)

importData ==
    \/ \E jsonString \in ImportTexts :
         /\ Enter(OpFrame("importData", jsonString, "import"), <<Loading(TRUE)>>)
         /\ UNCHANGED <<state, financeEngine, localStorage, subscribers, validationCache,
                        failures, lastCycle, registry, now, client>>
    \/ /\ Running("importData", "import")
       /\ \E out \in Outcomes :
            /\ Throw(out)
            /\ IF out = "ok"
               THEN LET result == EngineImportResult(Top.arg)
                    IN  /\ financeEngine' = EngineImport(financeEngine, Top.arg)
                        /\ IF result.success
                           THEN Emit([Top EXCEPT !.pc = "compute", !.result = result],
                                     Data(financeEngine'.data, financeEngine'.scenarios))
                           ELSE Emit([Top EXCEPT !.pc = "ret", !.result = result],
                                     Error(IF TruthyString(result.error) THEN result.error
                                           ELSE "Import failed"))
                        /\ UNCHANGED escaped
               ELSE /\ UNCHANGED financeEngine
                    /\ Raise(Top, "engine", "Import failed: " \o Thrown)
       /\ UNCHANGED <<state, localStorage, subscribers, validationCache, reentries, lastCycle, registry, now, client>>

exportData ==
    \/ /\ Enter(OpFrame("exportData", <<>>, "export"), <<>>)
       /\ UNCHANGED <<state, financeEngine, localStorage, subscribers, validationCache,
                      failures, lastCycle, registry, now, client>>
    \/ /\ Running("exportData", "export")
       /\ \E out \in Outcomes :
            /\ Throw(out)
            /\ IF out = "ok"
               THEN /\ Goto([Top EXCEPT !.pc = "ret", !.result = EngineExport(financeEngine)])
                    /\ UNCHANGED escaped
               ELSE Raise(Top, "engine", Thrown)
       /\ UNCHANGED <<state, financeEngine, localStorage, subscribers, validationCache,
                      reentries, lastCycle, registry, now, client>>

setCurrentScenario ==
    \E scenarioId \in ScenarioIds :
      /\ Enter(OpFrame("setCurrentScenario", scenarioId, "ret"),
               IF Truthy(GetProperty(state.scenarios, scenarioId))
               THEN <<[type |-> "SCENARIO_UPDATE", payload |-> [scenarioId |-> scenarioId]]>>
               ELSE <<Error("Scenario " \o scenarioId \o " not found")>>)
      /\ UNCHANGED <<state, financeEngine, localStorage, subscribers, validationCache,
                     failures, lastCycle, registry, now, client>>

clearError ==
    /\ Enter(OpFrame("clearError", <<>>, "ret"), <<Error(null)>>)
    /\ UNCHANGED <<state, financeEngine, localStorage, subscribers, validationCache,
                   failures, lastCycle, registry, now, client>>

\* a reset that leaves the persisted keys in place
KeepItems(storage) == storage

\* localStorage.removeItem('finance_data'); localStorage.removeItem('finance_scenarios')
RemoveItems(storage) == NoStorage

reset ==
    \/ /\ Enter(OpFrame("reset", <<>>, "reinit"), <<Loading(TRUE)>>)
       /\ UNCHANGED <<state, financeEngine, localStorage, subscribers, validationCache,
                      failures, lastCycle, registry, now, client>>
    \/ /\ Running("reset", "reinit")
       /\ localStorage' = RemoveItems(localStorage)
       /\ \E out \in Outcomes :
            /\ Throw(out)
            /\ IF out = "ok"
               THEN /\ financeEngine' = EngineInit(localStorage')
                    /\ Emit([Top EXCEPT !.pc = "compute"],
                            Data(financeEngine'.data, financeEngine'.scenarios))
                    /\ UNCHANGED escaped
               ELSE /\ financeEngine' = NewEngine
                    /\ Raise(Top, "engine", "Reset failed: " \o Thrown)
       /\ UNCHANGED <<state, subscribers, validationCache, reentries, lastCycle, registry, now, client>>

\* a public method (or the constructor) returns to its caller
Return ==
    /\ Len(stack) > 0 /\ Top.k = "op" /\ Top.pc = "ret"
    /\ stack' = Below
    /\ UNCHANGED <<state, financeEngine, localStorage, subscribers, validationCache,
                   reentries, failures, lastCycle, registry, now, client, escaped>>

---------------------------------------------------------------------------

\* the transition primitive and the steps of the pipelines every operation shares
Machinery ==
    \/ initializeState
    \/ UpdateState
    \/ AutoSave
    \/ computeAndValidate
    \/ validateAllDataStep
    \/ Return

\* the container driven by an application that registers no subscriber
Next ==
    \/ Machinery
    \/ updateMenu
    \/ updateSalesModel
    \/ updateUtilities
    \/ updateLabor
    \/ updateFixedCosts
    \/ ClearCache
    \/ importData
    \/ exportData
    \/ setCurrentScenario
    \/ clearError
    \/ reset

Spec == Init /\ [][Next]_vars

\* the container observed by subscribers, which may throw, unsubscribe and call back
NextObserved ==
    \/ Machinery
    \/ NotifySubscribers
    \/ \E cb \in SubIds : SubscribeOnce(cb)
    \/ \E cb \in SubIds : UnsubscribeAny(cb)
    \/ CallbackReturns
    \/ CallbackThrows
    \/ updateFixedCosts
    \/ setCurrentScenario
    \/ clearError

SpecObserved == Init /\ [][NextObserved]_vars

\* the container and an application that registers callbacks, also twice, and calls
\* the closures it got back, also twice, from outside and from inside callbacks
NextSubscriptions ==
    \/ Machinery
    \/ NotifySubscribers
    \/ \E cb \in SubIds : SubscribeCall(cb)
    \/ \E r \in 1..MaxRegistrations : UnsubscribeCall(r)
    \/ CallbackReturns
    \/ clearError

SpecSubscriptions == Init /\ [][NextSubscriptions]_vars

\* time passes: a later new Date() reads a later instant
Tick ==
    /\ now < MaxClock
    /\ Len(stack) = 0
    /\ now' = now + 1
    /\ UNCHANGED <<state, financeEngine, localStorage, subscribers, validationCache,
                   stack, reentries, failures, lastCycle, escaped, registry, client>>

---------------------------------------------------------------------------
(* StateManager: read accessors, and what the application does with the    *)
(* objects it is handed                                                    *)

ReadAccessors ==
    {"getState", "getData", "getComputationResult", "getValidationResults", "getError",
     "isLoading", "getCurrentScenario", "getScenarios"}

\* a getState that stamps the time of the call on its result
StampedCopy(st) == Refresh(st, now)

\* { ...this.state }: a new object with the fields of the state
ShallowCopy(st) == [f \in DOMAIN st |-> st[f]]

\* the value a read accessor returns
ReadValue(accessor, st) ==
    CASE accessor = "getState" -> ShallowCopy(st)
      [] accessor = "getData" -> st.data
      [] accessor = "getComputationResult" -> st.computationResult
      [] accessor = "getValidationResults" -> st.validationResults
      [] accessor = "getError" -> st.error
      [] accessor = "isLoading" -> st.isLoading
      [] accessor = "getCurrentScenario" -> st.currentScenario
      [] accessor = "getScenarios" -> st.scenarios

\* the fields of a fresh result of getState that are the state's own objects: the
\* spread copies the references of the nested objects
SharedFields(st) ==
    {f \in NestedFields : f = "data" => st.data # nullObject}

\* a read accessor is called; the application keeps the first result of getState
Read(accessor) ==
    /\ Enter([OpFrame(accessor, <<>>, "ret") EXCEPT !.result = ReadValue(accessor, state)],
             <<>>)
    /\ client' = IF accessor = "getState" /\ client.copy = nullObject
                 THEN [client EXCEPT !.copy = [value |-> ReadValue(accessor, state),
                                               aliased |-> SharedFields(state),
                                               fresh |-> TRUE, written |-> {}]]
                 ELSE client
    /\ UNCHANGED <<state, financeEngine, localStorage, subscribers, validationCache,
                   failures, lastCycle, registry, now>>

\* what a write makes of a field: a write into a nested object, or the assignment of
\* a top-level field
Overwritten(field, value) ==
    CASE field = "data" -> [value EXCEPT !.menus = "overwritten"]
      [] field = "scenarios" -> [id \in DOMAIN value \cup {"overwritten"} |-> Scenario(id)]
      [] field = "validationResults" -> <<>>
      [] OTHER -> "overwritten"

\* the application writes once to the result of getState it kept: to a field of the
\* result itself, or into one of its nested objects, which is the state's own object
\* as long as no transition replaced it
WriteCopy ==
    /\ Len(stack) = 0
    /\ client.copy # nullObject
    /\ \E field \in {f \in NestedFields \cup {"error"} : client.copy.written = {}} :
         /\ field = "data" => client.copy.value.data # nullObject
         /\ state' = IF field \in client.copy.aliased
                     THEN [state EXCEPT ![field] = Overwritten(field, @)]
                     ELSE state
         /\ client' = [client EXCEPT !.copy.written = @ \cup {field},
                                     !.copy.value[field] = Overwritten(field, @)]
    /\ UNCHANGED <<financeEngine, localStorage, subscribers, validationCache, stack,
                   reentries, failures, lastCycle, escaped, registry, now>>

\* a callback keeps the object it is handed: callback(this.state) hands out the
\* container's own state object
Retain ==
    /\ InCallback
    /\ client.retained = nullObject
    /\ client' = [client EXCEPT !.retained = [sub |-> Top.sub, seen |-> state,
                                              written |-> FALSE]]
    /\ UNCHANGED <<state, financeEngine, localStorage, subscribers, validationCache, stack,
                   reentries, failures, lastCycle, escaped, registry, now>>

\* what is read now through the object a callback was handed
Retained == state

\* the subscriber writes to the object it kept
WriteRetained ==
    /\ Len(stack) = 0 \/ InCallback
    /\ client.retained # nullObject /\ ~client.retained.written
    /\ state' = [state EXCEPT !.error = "overwritten"]
    /\ client' = [client EXCEPT
                    !.retained.written = TRUE,
                    !.copy = IF @ = nullObject THEN @ ELSE [@ EXCEPT !.fresh = FALSE]]
    /\ UNCHANGED <<financeEngine, localStorage, subscribers, validationCache, stack,
                   reentries, failures, lastCycle, escaped, registry, now>>

\* a call the application makes from outside any callback
FromApplication(Call) == Len(stack) = 0 /\ Call

\* the container, its subscribers and the clock
NextClients ==
    \/ Machinery
    \/ NotifySubscribers
    \/ \E cb \in SubIds : SubscribeOnce(cb)
    \/ \E cb \in SubIds : UnsubscribeAny(cb)
    \/ CallbackReturns
    \/ FromApplication(setCurrentScenario)
    \/ FromApplication(clearError)
    \/ Tick

SpecClients == Init /\ [][NextClients]_vars

\* the container and subscribers that keep the object they are handed and write to it
NextRetaining ==
    \/ Machinery
    \/ NotifySubscribers
    \/ \E cb \in SubIds : FromApplication(SubscribeOnce(cb))
    \/ CallbackReturns
    \/ FromApplication(setCurrentScenario)
    \/ FromApplication(clearError)
    \/ Retain
    \/ WriteRetained

SpecRetaining == Init /\ [][NextRetaining]_vars

\* the container and an application that calls the read accessors, from outside and
\* from inside callbacks, and writes to the result of getState, while time passes
NextReaders ==
    \/ Machinery
    \/ NotifySubscribers
    \/ FromApplication(SubscribeOnce(1))
    \/ CallbackReturns
    \/ FromApplication(setCurrentScenario)
    \/ FromApplication(clearError)
    \/ Tick
    \/ \E accessor \in ReadAccessors : Read(accessor)
    \/ exportData
    \/ WriteCopy

SpecReaders == Init /\ [][NextReaders]_vars

\* an operation that callbacks do not call
NotFromCallback(Operation) == ~InCallback /\ Operation

\* the five mutation operations, called by the application and observed by a
\* subscriber that may replace the dataset and the scenario map, by an import, from
\* inside a notification
NextMutations ==
    \/ Machinery
    \/ NotifySubscribers
    \/ FromApplication(SubscribeOnce(1))
    \/ CallbackReturns
    \/ NotFromCallback(updateMenu)
    \/ NotFromCallback(updateSalesModel)
    \/ NotFromCallback(updateUtilities)
    \/ NotFromCallback(updateLabor)
    \/ NotFromCallback(updateFixedCosts)
    \/ importData
    \/ ClearCache

SpecMutations == Init /\ [][NextMutations]_vars

\* the updates handed to updateState by a caller outside the container: well-formed
\* ones, ones without payload, and one of a kind the switch has no case for
Updates ==
    {Loading(TRUE), Loading(FALSE), Error("oops"),
     [type |-> "SCENARIO_UPDATE", payload |-> [scenarioId |-> "s2"]]}
    \cup {[type |-> kind, payload |-> nullObject] :
            kind \in {"DATA_UPDATE", "ERROR_UPDATE", "LOADING_UPDATE", "OTHER_UPDATE"}}

\* updateState is a public method: the application or a callback calls it
updateState ==
    \E update \in Updates :
      /\ Enter(OpFrame("updateState", update, "ret"), <<update>>)
      /\ UNCHANGED <<state, financeEngine, localStorage, subscribers, validationCache,
                     failures, lastCycle, registry, now, client>>

\* the container whose updateState is called directly, observed by subscribers
NextUpdates ==
    \/ Machinery
    \/ NotifySubscribers
    \/ \E cb \in SubIds : FromApplication(SubscribeOnce(cb))
    \/ CallbackReturns
    \/ updateState
    \/ UpdateStateThrows
    \/ UpdateStateCaught

SpecUpdates == Init /\ [][NextUpdates]_vars

\* the steps of the container's own code and the return of a callback: all of it is
\* synchronous code that runs on once it is entered, and callbacks are taken to return
Runs ==
    \/ Machinery
    \/ NotifySubscribers
    \/ CallbackReturns
    \/ UpdateStateThrows
    \/ UpdateStateCaught

SpecUpdatesFair == SpecUpdates /\ WF_vars(Runs)

---------------------------------------------------------------------------
(* Properties *)

MutationOps == {"updateMenu", "updateSalesModel", "updateUtilities", "updateLabor",
                "updateFixedCosts"}

Has(items, x) == \E j \in DOMAIN items : items[j] = x

\* a public method has run to its end and is about to return
Returning == Len(stack) > 0 /\ Top.k = "op" /\ Top.pc = "ret"

\* what the category rule says about the payload of a mutation operation
CategoryResults(op, arg) ==
    CASE op = "updateMenu" -> <<validateMenuItem(arg[2])>>
      [] op = "updateSalesModel" -> <<validateSalesModel(arg)>>
      [] op = "updateUtilities" -> [j \in DOMAIN arg |-> validateUtilityItem(arg[j])]
      [] op = "updateLabor" -> [j \in DOMAIN arg |-> validateLaborItem(arg[j])]
      [] op = "updateFixedCosts" -> [j \in DOMAIN arg |-> validateFixedCost(arg[j])]

Rejects(op, arg) == \E j \in DOMAIN CategoryResults(op, arg) : ~CategoryResults(op, arg)[j].isValid

\* the error a rejected payload must leave, written out
ExpectedRejection(op, arg) ==
    CASE op = "updateMenu" ->
            "Menu validation failed: Menu name is required, Price must be positive"
      [] op = "updateSalesModel" ->
            "Sales model validation failed: Forecast must be non-negative"
      [] op = "updateUtilities" -> "Utility validation failed: Name is required"
      [] op = "updateLabor" -> "Labor validation failed: Name is required"
      [] op = "updateFixedCosts" ->
            "Fixed cost validation failed: Name is required, Amount must be non-negative, Unit is required"

\* C1: whenever the container is at rest (construction or a public operation has
\* returned), currentScenario is a key of scenarios.
C1_ScenarioIsKey ==
    Len(stack) = 0 => state.currentScenario \in DOMAIN state.scenarios

\* C2: a mutation operation whose payload the category rule rejects leaves data
\* unchanged, never enters the engine's update method, leaves error set to the
\* category prefix followed by the comma-joined messages, and applies LOADING(true)
\* and ERROR only (no DATA, COMPUTATION or VALIDATION transition).
C2_ValidationGate ==
    \A op \in MutationOps :
      (Returning /\ Top.op = op /\ Rejects(op, Top.arg)) =>
         /\ state.data = Top.entry.data
         /\ ~Top.engineCalled
         /\ state.error = ExpectedRejection(op, Top.arg)
         /\ Top.emitted = <<"LOADING_UPDATE(true)", "ERROR_UPDATE">>

C2_Witness ==
    /\ Returning /\ Top.op = "updateFixedCosts" /\ Top.arg = <<"bad1", "ok", "bad2">>
    /\ state.error = "Fixed cost validation failed: Name is required, Amount must be non-negative, Unit is required"
    /\ state.data = DefaultData

FiveNotifications ==
    <<"LOADING_UPDATE(true)", "DATA_UPDATE", "COMPUTATION_UPDATE", "VALIDATION_UPDATE",
      "LOADING_UPDATE(false)">>

\* C3: when a mutation operation with an accepted payload returns and neither the
\* engine update nor compute nor the whole-dataset rule threw, every callback that was
\* registered throughout and did not call back into the container has been delivered
\* exactly the five transitions of the operation, in pipeline order.
C3_PipelineOrder ==
    \A op \in MutationOps :
      (/\ Returning /\ Top.op = op /\ ~Rejects(op, Top.arg)
       /\ Top.failed \cap {"engine", "compute", "validator"} = {}) =>
         \A s \in SubIds :
           (Has(Top.subs0, s) /\ s \notin Top.unsubscribed /\ s \notin Top.callers) =>
              Top.recv[s] = FiveNotifications

\* C4: isLoading = true implies error = null, in every state, the ones subscribers
\* are notified with and the ones re-entrant calls produce included.
C4_LoadingImpliesNoError == state.isLoading => state.error = null

C4_Witness ==
    /\ InCallback /\ reentries > 0 /\ Len(stack) > 3
    /\ state.isLoading /\ state.error = null
    /\ \E j \in DOMAIN stack : stack[j].k = "op" /\ Has(stack[j].emitted, "ERROR_UPDATE")

\* a LOADING transition is about to be assigned
ApplyingLoading ==
    Len(stack) > 0 /\ Top.k = "us" /\ Top.pc = "apply" /\ Top.update.type = "LOADING_UPDATE"

\* C5: LOADING(true) yields isLoading = true and error = null from any state;
\* LOADING(false) yields isLoading = false and leaves error as it was.
C5_LoadingTransition ==
    [][ApplyingLoading =>
          /\ state'.isLoading = Top.update.payload.isLoading
          /\ state'.error = IF Top.update.payload.isLoading THEN null ELSE state.error]_vars

C5_Witness ==
    /\ Len(stack) > 0 /\ Top.k = "us" /\ Top.pc = "notify" /\ Top.i = 1
    /\ Top.update = Loading(TRUE) /\ Top.hadError
    /\ state.isLoading /\ state.error = null

C7_UnknownScenarioRejected ==
    (Returning /\ Top.op = "setCurrentScenario" /\ Top.arg \notin DOMAIN Top.entry.scenarios) =>
       /\ state.currentScenario = Top.entry.currentScenario
       /\ state.error = "Scenario " \o Top.arg \o " not found"
       /\ Top.emitted = <<"ERROR_UPDATE">>

\* C8: setCurrentScenario(id) applies SCENARIO(id) exactly when id is a key of
\* scenarios.
C8_ScenarioSelectedIffKey ==
    (Returning /\ Top.op = "setCurrentScenario") =>
       ((Top.emitted = <<"SCENARIO_UPDATE">> /\ state.currentScenario = Top.arg)
          <=> Top.arg \in DOMAIN Top.entry.scenarios)

\* validateAllData is about to run on the serialization the previous run saw, and
\* the cache was not cleared in between
SameSerialization ==
    /\ InPipeline("validateAll")
    /\ lastCycle.hash = Stringify(state.data) /\ ~lastCycle.cleared

\* the step applies VALIDATION with the outcome the previous run left in the state
EmitsSameOutcome ==
    /\ Len(stack') > 0 /\ stack'[Len(stack')].k = "us"
    /\ stack'[Len(stack')].update = Validation(state.validationResults)

ReturnsAfterClear ==
    /\ Returning
    /\ \/ Top.op = "importData" /\ Top.result.success
       \/ Top.op = "reset" /\ "engine" \notin Top.failed

\* C10: when a successful importData, or a reset whose engine initialisation did not
\* throw, returns, the ValidationCache is empty, and the next run of validateAllData
\* invokes the whole-dataset rule.
C10_CacheClearedOnReturn ==
    [][/\ ReturnsAfterClear' => validationCache' = EmptyMap
       /\ (InPipeline("validateAll") /\ lastCycle.cleared) => lastCycle'.invoked]_vars

C10_Witness ==
    /\ Returning /\ Top.op = "importData" /\ Top.result.success
    /\ validationCache = EmptyMap
    /\ lastCycle.hash = Stringify(state.data) /\ lastCycle.cleared /\ ~lastCycle.invoked

Invokes(cb) ==
    /\ Len(stack') = Len(stack) + 1
    /\ stack'[Len(stack')].k = "cb" /\ stack'[Len(stack')].sub = cb

\* C12 as stated: once a closure returned by subscribe(cb) has been called, cb is
\* invoked for no transition (no subscribe(cb) being made after that call).
C12_NoDeliveryAfterAnyCall ==
    [][\A cb \in SubIds :
         Invokes(cb) =>
            \A r \in DOMAIN registry.of : registry.of[r] = cb => registry.calls[r] = 0]_vars

\* C12, amended: cb is invoked only while some subscribe(cb) call has a closure that
\* was never called; once the closure of every subscribe(cb) call has been called, cb
\* is invoked for no transition applied afterwards (no subscribe(cb) being made after
\* such a call).  A callback registered twice is still invoked after one call.
C12_NoDeliveryAfterUnsubscribe ==
    [][\A cb \in SubIds :
         Invokes(cb) =>
            \E r \in DOMAIN registry.of : registry.of[r] = cb /\ registry.calls[r] = 0]_vars

C12_Witness ==
    /\ InCallback /\ Len(stack) = 3 /\ stack[1].op = "clearError"
    /\ \E r \in DOMAIN registry.of :
         /\ registry.calls[r] > 0 /\ registry.of[r] # Top.sub
         /\ ~Has(stack[1].subs0, registry.of[r])
    /\ stack[2].i > Len(subscribers)

\* the sequence without its entries equal to x
Without(items, x) == SelectSeq(items, LAMBDA e : e # x)

\* C13: the first call of the closure returned by a subscribe call leaves the
\* subscriber list without the entry that subscribe call made and otherwise as it was,
\* and a second call of the same closure leaves the subscriber list as it is, also
\* when the same callback was registered by another subscribe call.
C13_UnsubscribeExact ==
    [][\A r \in DOMAIN registry.of :
         registry'.calls[r] # registry.calls[r] =>
            IF registry.calls[r] > 0
            THEN subscribers' = subscribers
            ELSE subscribers' = [j \in DOMAIN Without(registry.entries, r) |->
                                   registry.of[Without(registry.entries, r)[j]]]]_vars

\* the transitions an operation applies when nothing throws
ExpectedTransitions(op, arg, entry) ==
    CASE op \in MutationOps ->
            IF Rejects(op, arg) THEN <<"LOADING_UPDATE(true)", "ERROR_UPDATE">>
            ELSE FiveNotifications
      [] op = "setCurrentScenario" ->
            IF Truthy(GetProperty(entry.scenarios, arg)) THEN <<"SCENARIO_UPDATE">>
            ELSE <<"ERROR_UPDATE">>
      [] op = "clearError" -> <<"ERROR_UPDATE">>

\* a subscriber callback throws in this step
SubscriberThrows == InCallback /\ failures' = failures + 1

\* an operation during which a callback threw, and no callback called the container,
\* has run to its end
ReturningDespiteThrow ==
    /\ Returning /\ Top.op # "constructor"
    /\ Top.failed = {"subscriber"} /\ Top.callers = {}

\* C14: a throw of a subscriber during a fan-out changes neither the state nor the
\* subscriber list nor the position of the fan-out, so the subscribers after it are
\* invoked for the same transition; by the end of the operation every subscriber has
\* been delivered every transition of the operation, and the operation has applied
\* the transitions it applies when nothing throws (no ERROR for the throw).
C14_SubscriberIsolation ==
    [][/\ SubscriberThrows =>
            /\ UNCHANGED <<state, subscribers, financeEngine, localStorage, validationCache>>
            /\ stack'[Len(stack')] = stack[Len(stack) - 1]
       /\ ReturningDespiteThrow' =>
            /\ Top'.emitted = ExpectedTransitions(Top'.op, Top'.arg, Top'.entry)
            /\ \A j \in DOMAIN Top'.subs0 : Top'.recv[Top'.subs0[j]] = Top'.emitted]_vars

C14_Witness ==
    /\ Len(stack) = 3 /\ stack[1].op = "clearError"
    /\ stack[1].failed = {"subscriber"} /\ stack[1].callers = {}
    /\ Top.k = "cb" /\ Top.sub = subscribers[2]
    /\ stack[1].recv[Top.sub] = <<"ERROR_UPDATE">>

\* updateState assigns the fields of a transition in this step
AppliesTransition == Len(stack) > 0 /\ Top.k = "us" /\ Top.pc = "apply" /\ stack' # stack

\* an operation of one transition, called by the application, has run to its end: the
\* subscriber list at its entry is the list at the moment the transition was applied
ReturningFromOne ==
    Returning /\ Len(stack) = 1 /\ Top.op \in {"clearError", "setCurrentScenario"}

\* C15: every transition applied by updateState sets lastUpdated to the current time,
\* and every callback registered when the transition is applied is invoked exactly
\* once for it.
C15_EveryTransitionFansOut ==
    [][/\ AppliesTransition => state'.lastUpdated = now
       /\ ReturningFromOne' =>
            \A j \in DOMAIN Top'.subs0 : Len(Top'.recv[Top'.subs0[j]]) = 1]_vars

\* the operations that run a pipeline between LOADING(true) and LOADING(false) / ERROR
PipelineOps == MutationOps \cup {"importData", "reset"}

\* the transitions of the activation at position j that updateState has assigned (the
\* last one is still to be assigned while its updateState has not started)
Applied(j) ==
    IF j < Len(stack) /\ stack[j + 1].k = "us" /\ stack[j + 1].pc = "apply"
    THEN SubSeq(stack[j].emitted, 1, Len(stack[j].emitted) - 1)
    ELSE stack[j].emitted

\* the pipeline of the activation at position j has begun and has not ended
InFlight(j) ==
    /\ stack[j].k = "op" /\ stack[j].op \in PipelineOps
    /\ Len(Applied(j)) > 0
    /\ Applied(j)[1] = "LOADING_UPDATE(true)"
    /\ Applied(j)[Len(Applied(j))] \notin {"LOADING_UPDATE(false)", "ERROR_UPDATE"}

\* C16: isLoading is true exactly in the states in which a pipeline is in flight,
\* whatever the subscribers call from inside their notifications.
C16_LoadingIffInFlight ==
    state.isLoading <=> \E j \in DOMAIN stack : InFlight(j)

\* C17 as stated: at most one pipeline is in flight at any time.
C17_OnePipeline ==
    Cardinality({j \in DOMAIN stack : InFlight(j)}) <= 1

\* C17, amended: pipelines in flight are nested, never interleaved: of any two, the
\* inner one was started by a subscriber callback that the outer one is notifying, so
\* with subscribers that call no mutation operation at most one is in flight, and a
\* pipeline started from a callback runs to its end before the outer one goes on.
C17_PipelinesNested ==
    \A j, m \in DOMAIN stack :
       (j < m /\ InFlight(j) /\ InFlight(m)) =>
          \E c \in (j + 1)..(m - 1) : stack[c].k = "cb"

C17_Witness ==
    /\ Cardinality({j \in DOMAIN stack : InFlight(j)}) = 2
    /\ Top.k = "op" /\ Top.op = "updateFixedCosts" /\ Top.pc = "compute"
    /\ stack[1].op = "updateFixedCosts" /\ stack[1].emitted = <<"LOADING_UPDATE(true)", "DATA_UPDATE">>

\* C18: the state handed to a subscriber is an immutable snapshot: what is read through
\* the object a subscriber kept from a notification stays what it was at that
\* notification whatever transitions are applied later, and a write of the subscriber
\* to that object leaves the state of the container as it was.
C18_SnapshotImmutable ==
    [][/\ (client.retained # nullObject /\ client'.retained = client.retained)
            => Retained' = client.retained.seen
       /\ (client.retained # nullObject /\ client'.retained # client.retained)
            => state' = state]_vars

\* C19: getState returns a value-copy: a write of the application to the object that
\* getState returned, at its top level or inside its data, scenarios or
\* validationResults, changes nothing of what getState and the getters return.
C19_GetStateIsValueCopy ==
    [][(/\ client.copy # nullObject /\ client'.copy # nullObject
        /\ client'.copy.written # client.copy.written)
          => \A accessor \in ReadAccessors :
               ReadValue(accessor, state') = ReadValue(accessor, state)]_vars

\* a step in which a read accessor is called
Reads ==
    /\ Len(stack') = Len(stack) + 1
    /\ Top'.k = "op" /\ Top'.op \in ReadAccessors

\* C20: a read accessor changes no state, lastUpdated included, applies no transition
\* and invokes no callback, and returns the field of the state it is named after; a
\* getState that follows an earlier one with no transition in between returns a
\* snapshot equal to the earlier result (as long as the application assigned no
\* top-level field of that result itself).
C20_ReadsArePure ==
    [][Reads =>
         /\ state' = state /\ state'.lastUpdated = state.lastUpdated
         /\ UNCHANGED <<subscribers, financeEngine, localStorage, validationCache, now>>
         /\ Top'.pc = "ret" /\ Top'.emitted = <<>>
         /\ \A j \in DOMAIN stack : /\ stack'[j].k = stack[j].k
                                    /\ stack[j].k = "op" => stack'[j].recv = stack[j].recv
         /\ Top'.result = ReadValue(Top'.op, state)
         /\ (/\ Top'.op = "getState" /\ client.copy # nullObject /\ client.copy.fresh
             /\ client.copy.written \subseteq NestedFields)
               => Top'.result = client.copy.value]_vars

\* a second getState has returned, after an earlier one and calls of other accessors,
\* with no transition in between and at a later time than the last transition
C20_Witness ==
    /\ Returning /\ Top.op = "getState"
    /\ client.copy # nullObject /\ client.copy.fresh /\ client.copy.written = {}
    /\ Top.result = client.copy.value
    /\ now > state.lastUpdated
    /\ Len(subscribers) > 0

\* the ERROR(null) transition of a clearError call is assigned in this step
ClearErrorApplies ==
    /\ Len(stack) > 1 /\ Top.k = "us" /\ Top.pc = "apply"
    /\ stack[Owner(Len(stack))].op = "clearError"
    /\ stack' # stack

\* C21: clearError sets error to null and leaves data, scenarios, currentScenario,
\* computationResult, validationResults and isLoading as they were, from every
\* reachable state, also when a subscriber calls it while a pipeline is in flight.
C21_ClearErrorOnlyClears ==
    [][ClearErrorApplies =>
         /\ state'.error = null
         /\ \A f \in {"data", "scenarios", "currentScenario", "computationResult",
                       "validationResults", "isLoading"} : state'[f] = state[f]]_vars

\* the error importData must leave when importJSON reported failure or threw
ExpectedImportError(frame) ==
    IF "engine" \in frame.failed THEN "Import failed: " \o Thrown
    ELSE IF TruthyString(EngineImportResult(frame.arg).error)
         THEN EngineImportResult(frame.arg).error
         ELSE "Import failed"

\* importData returns after importJSON reported failure or threw
ImportFailed ==
    /\ Returning /\ Top.op = "importData"
    /\ ~EngineImportResult(Top.arg).success \/ "engine" \in Top.failed

\* C22: importData returns success = true exactly when importJSON reported success
\* and nothing threw during the operation; when importJSON reports failure or throws,
\* data and scenarios are unchanged, the transitions are LOADING(true) and ERROR only,
\* error is the engine's message, else "Import failed", or "Import failed: " plus the
\* exception's message, isLoading is false and the result has success = false.
C22_ImportResult ==
    /\ (Returning /\ Top.op = "importData") =>
          (Top.result.success <=> (EngineImportResult(Top.arg).success /\ Top.failed = {}))
    /\ ImportFailed =>
          /\ state.data = Top.entry.data /\ state.scenarios = Top.entry.scenarios
          /\ Top.emitted = <<"LOADING_UPDATE(true)", "ERROR_UPDATE">>
          /\ state.error = ExpectedImportError(Top)
          /\ ~state.isLoading
          /\ ~Top.result.success

\* a step of exportData: it is called, its call into the engine ends, or it returns
ExportRuns ==
    \/ Len(stack') = Len(stack) + 1 /\ Top'.k = "op" /\ Top'.op = "exportData"
    \/ Len(stack) > 0 /\ Top.k = "op" /\ Top.op = "exportData" /\ stack' # stack

\* C23: exportData is read-only: whether exportJSON returns or throws, the state, the
\* subscriber list, the store, the engine and the cache are unchanged, no transition
\* is applied and no callback is invoked; when exportJSON throws, the exception leaves
\* exportData to its caller and error is not set; when it returns, exportData returns
\* the engine's serialization.
C23_ExportIsReadOnly ==
    [][ExportRuns =>
         /\ UNCHANGED <<state, subscribers, localStorage, financeEngine, validationCache>>
         /\ \A j \in DOMAIN stack' :
              /\ stack'[j].k \in {"us", "cb"} => (j \in DOMAIN stack /\ stack'[j] = stack[j])
              /\ (stack'[j].k = "op" /\ j \in DOMAIN stack) => stack'[j].recv = stack[j].recv
         /\ failures' > failures =>
              /\ stack' = Unwound
              /\ Len(stack) = 1 => escaped' = "exportData"
              /\ state'.error = state.error
         /\ (failures' = failures /\ Len(stack') = Len(stack)) =>
              (Returning' /\ Top'.result = EngineExport(financeEngine))]_vars

\* exportJSON threw: the exception left exportData, a callback is registered and was
\* not notified, and the state shows no error
C23_Witness ==
    /\ Len(stack) = 0 /\ escaped = "exportData" /\ failures = 1
    /\ Len(subscribers) > 0
    /\ state.error = null /\ state.data = DefaultData

\* a transition of a mutation operation is assigned in this step
MutationApplies ==
    /\ Len(stack) > 1 /\ Top.k = "us" /\ Top.pc = "apply"
    /\ stack[Owner(Len(stack))].op \in MutationOps
    /\ stack' # stack

\* C24: no transition of a mutation operation changes scenarios or currentScenario;
\* its DATA transition carries the scenario map the state held immediately before it,
\* whether the operation succeeds or fails, also when a subscriber replaced the map
\* from inside an earlier notification of the same operation.
C24_ScenariosUntouched ==
    [][MutationApplies =>
         /\ state'.scenarios = state.scenarios
         /\ state'.currentScenario = state.currentScenario
         /\ Top.update.type = "DATA_UPDATE" =>
               Top.update.payload.scenarios = state.scenarios]_vars

\* the DATA transition of a mutation operation has been assigned after a subscriber
\* imported another scenario map during the LOADING(true) notification
C24_Witness ==
    /\ Len(stack) > 1 /\ Top.k = "us" /\ Top.pc = "notify"
    /\ Top.update.type = "DATA_UPDATE"
    /\ stack[Owner(Len(stack))].op \in MutationOps
    /\ stack[Owner(Len(stack))].entry.scenarios = DefaultScenarios
    /\ state.scenarios = [id \in {"base"} |-> Scenario(id)]

\* the error the catch block of a mutation operation leaves, written out
ExpectedFailure(op) ==
    CASE op = "updateMenu" -> "Failed to update menu: boom"
      [] op = "updateSalesModel" -> "Failed to update sales model: boom"
      [] op = "updateUtilities" -> "Failed to update utilities: boom"
      [] op = "updateLabor" -> "Failed to update labor: boom"
      [] op = "updateFixedCosts" -> "Failed to update fixed costs: boom"

\* a mutation operation is about to return after `what` threw
ReturningAfter(what) ==
    Returning /\ Top.op \in MutationOps /\ what \in Top.failed

FailedConstruction == Len(stack) = 0 /\ state.data = nullObject

\* C26: constructing a StateManager never throws: when the engine's init (or the read
\* of its dataset and scenario map) throws, construction ends with ERROR only, error =
\* "Failed to initialize: " plus the reason and isLoading = false; on the container
\* that results every public operation can be called, no exception leaves any of them
\* but exportData, a rejected payload is reported as on any other container and an
\* accepted one runs the whole pipeline when nothing throws.
C26_ConstructionNeverThrows ==
    /\ escaped # "constructor"
    /\ (Returning /\ Top.op = "constructor" /\ "engine" \in Top.failed) =>
          /\ Top.emitted = <<"ERROR_UPDATE">>
          /\ state.error = "Failed to initialize: boom" /\ ~state.isLoading
          /\ state.data = nullObject
    /\ FailedConstruction =>
          /\ escaped \in {"none", "exportData"}
          /\ ENABLED updateMenu /\ ENABLED updateSalesModel /\ ENABLED updateUtilities
          /\ ENABLED updateLabor /\ ENABLED updateFixedCosts /\ ENABLED importData
          /\ ENABLED exportData /\ ENABLED setCurrentScenario /\ ENABLED clearError
          /\ ENABLED reset
    /\ (Returning /\ Top.op \in MutationOps /\ Top.entry.data = nullObject) =>
          /\ Rejects(Top.op, Top.arg) =>
                /\ state.error = ExpectedRejection(Top.op, Top.arg)
                /\ Top.emitted = <<"LOADING_UPDATE(true)", "ERROR_UPDATE">>
          /\ (~Rejects(Top.op, Top.arg) /\ Top.failed = {}) =>
                /\ state.error = null /\ ~state.isLoading
                /\ Top.emitted = FiveNotifications

\* a mutation operation has run its whole pipeline on a container whose construction
\* failed
C26_Witness ==
    /\ Returning /\ Top.op = "updateLabor" /\ Top.arg = <<>>
    /\ Top.entry.data = nullObject /\ Top.entry.scenarios = EmptyMap
    /\ Top.emitted = FiveNotifications
    /\ failures = 1 /\ escaped = "none"

\* updateState ends in this step: the forEach of its transition is over
Finishes ==
    /\ Len(stack) > 1 /\ Top.k = "us" /\ Top.pc = "notify" /\ Top.i > Top.len
    /\ stack' # stack

\* C27: save is attempted once at the end of the updateState of every DATA
\* transition, after the fan-out of that transition, and at no other step; a save that
\* returns leaves the engine's dataset in the store; a save that throws changes neither
\* the state (error included) nor the store, invokes no callback, and leaves the
\* method that applied the transition where a successful save leaves it, about to
\* compute and validate.
C27_SaveIsAdvisory ==
    [][/\ Finishes =>
            /\ state' = state /\ subscribers' = subscribers
            /\ Len(stack') = Len(stack) - 1
            /\ Top'.pc = stack[Owner(Len(stack))].pc
            /\ Top'.emitted = stack[Owner(Len(stack))].emitted
            /\ Top'.recv = stack[Owner(Len(stack))].recv
            /\ IF Top.update.type = "DATA_UPDATE"
               THEN /\ Top'.pc = "compute"
                    /\ \/ failures' = failures /\ localStorage' = EngineSave(financeEngine)
                       \/ /\ failures' = failures + 1 /\ localStorage' = localStorage
                          /\ "store" \in Top'.failed
               ELSE failures' = failures /\ localStorage' = localStorage
       /\ (localStorage' # localStorage /\ localStorage' # NoStorage) =>
            (Finishes /\ Top.update.type = "DATA_UPDATE")]_vars

\* save threw after the DATA transition of an operation was fanned out to two
\* subscribers, and the operation went on to its end
C27_Witness ==
    /\ Returning /\ Top.op = "updateFixedCosts" /\ Top.failed = {"store"}
    /\ Top.emitted = FiveNotifications
    /\ \A s \in SubIds : Top.recv[s] = FiveNotifications
    /\ state.error = null /\ ~state.isLoading
    /\ localStorage # EngineSave(financeEngine)

\* compute threw in the operation the application called, which has not returned
ComputeFailed(frames) ==
    Len(frames) > 0 /\ frames[1].k = "op" /\ "compute" \in frames[1].failed

\* C28: when compute throws inside computeAndValidate, the sequence applies ERROR
\* with the message "Computation failed: " plus the reason and nothing else: up to the
\* return of the operation there is no COMPUTATION, VALIDATION or LOADING(false)
\* transition, the whole-dataset rule is not run, and computationResult and
\* validationResults keep the values they had.
C28_ComputeFailureAborts ==
    [][/\ ComputeFailed(stack') =>
            /\ state'.computationResult = state.computationResult
            /\ state'.validationResults = state.validationResults
            /\ lastCycle'.hash = lastCycle.hash /\ lastCycle'.invoked = lastCycle.invoked
            /\ validationCache' \in {validationCache, EmptyMap}
       /\ (Returning' /\ "compute" \in Top'.failed) =>
            /\ state'.error = "Computation failed: boom"
            /\ Top'.emitted[Len(Top'.emitted)] = "ERROR_UPDATE"
            /\ Top'.emitted[Len(Top'.emitted) - 1] = "DATA_UPDATE"
            /\ \A j \in DOMAIN Top'.emitted :
                 Top'.emitted[j] \notin {"COMPUTATION_UPDATE", "VALIDATION_UPDATE",
                                        "LOADING_UPDATE(false)"}]_vars

\* compute threw after the DATA transition of updateMenu: the state holds the new
\* dataset and the figures computed from the old one
C28_Witness ==
    /\ Returning /\ Top.op = "updateMenu" /\ Top.failed = {"compute"}
    /\ Top.emitted = <<"LOADING_UPDATE(true)", "DATA_UPDATE", "ERROR_UPDATE">>
    /\ state.error = "Computation failed: boom"
    /\ state.data = [DefaultData EXCEPT !.menus = "menu1"]
    /\ state.computationResult = [computedFrom |-> DefaultData]
    /\ Len(state.validationResults) = 1

\* the whole-dataset rule threw in the operation the application called, which has
\* not returned
ValidatorFailed(frames) ==
    Len(frames) > 0 /\ frames[1].k = "op" /\ "validator" \in frames[1].failed

\* C29: when the whole-dataset validation step itself throws, no VALIDATION and no
\* ERROR transition is applied, error stays null, validationResults keeps the value it
\* had, and the sequence still ends with LOADING(false).
C29_ValidatorFailureSwallowed ==
    [][/\ ValidatorFailed(stack') =>
            /\ state'.validationResults = state.validationResults
            /\ state'.error = null /\ state.error = null
       /\ (Returning' /\ "validator" \in Top'.failed) =>
            /\ \A j \in DOMAIN Top'.emitted :
                 Top'.emitted[j] \notin {"VALIDATION_UPDATE", "ERROR_UPDATE"}
            /\ Top'.emitted[Len(Top'.emitted)] = "LOADING_UPDATE(false)"
            /\ Top'.emitted[Len(Top'.emitted) - 1] = "COMPUTATION_UPDATE"
            /\ ~state'.isLoading]_vars

\* the rule threw on the dataset updateMenu produced: the operation ended with
\* LOADING(false), and the state holds the new dataset with the validation outcome of
\* the old one
C29_Witness ==
    /\ Returning /\ Top.op = "updateMenu" /\ Top.failed = {"validator"}
    /\ Top.emitted = <<"LOADING_UPDATE(true)", "DATA_UPDATE", "COMPUTATION_UPDATE",
                       "LOADING_UPDATE(false)">>
    /\ state.error = null /\ ~state.isLoading
    /\ state.data = [DefaultData EXCEPT !.menus = "menu1"]
    /\ state.validationResults = <<validateAllData(DefaultData)>>

ListOps == {"updateUtilities", "updateLabor", "updateFixedCosts"}

\* the category of the dataset a list operation replaces, and the prefix of its
\* validation error
ListCategory(op) ==
    CASE op = "updateUtilities" -> "utilities"
      [] op = "updateLabor" -> "labor"
      [] op = "updateFixedCosts" -> "fixedCosts"

ListPrefix(op) ==
    CASE op = "updateUtilities" -> "Utility validation failed: "
      [] op = "updateLabor" -> "Labor validation failed: "
      [] op = "updateFixedCosts" -> "Fixed cost validation failed: "

\* the messages a list payload must be rejected with: those of each failing element,
\* element by element in list order
RECURSIVE ExpectedMessages(_, _)
ExpectedMessages(op, items) ==
    IF items = <<>> THEN <<>>
    ELSE LET result == CategoryResults(op, <<Head(items)>>)[1]
         IN  (IF result.isValid THEN <<>> ELSE result.errors)
             \o ExpectedMessages(op, Tail(items))

CatchRuns ==
    /\ Len(stack) > 0 /\ Top.k = "us" /\ Top.pc = "apply"
    /\ Len(stack') = Len(stack) + 1

\* C31: updateState terminates for every update: when the case of the switch throws
\* (an update without payload), nothing is assigned, the catch block applies exactly
\* one ERROR transition "State update failed: ..." through one recursive call, which
\* does not throw, so at most two activations of updateState are on top of one
\* another; and every call into the container returns.
C31_UpdateStateTerminates ==
    /\ [](/\ Recursion <= 2
          /\ \A j \in DOMAIN stack :
               (j > 1 /\ stack[j].k = "us" /\ stack[j - 1].k = "us") =>
                  /\ stack[j - 1].pc = "caught"
                  /\ stack[j].update = Error("State update failed: " \o TypeError)
                  /\ ~HandlerThrows(stack[j].update)
          /\ (Returning /\ Top.op = "updateState" /\ HandlerThrows(Top.arg)) =>
                /\ Top.emitted = <<"ERROR_UPDATE">>
                /\ Top.callers = {} => state.error = "State update failed: " \o TypeError)
    /\ [][CatchRuns => (HandlerThrows(Top.update) /\ state' = state)]_vars
    /\ (Len(stack) > 0) ~> (Len(stack) = 0)

\* updateState was called with a DATA update without payload: the one ERROR
\* transition of the catch block was applied and fanned out, and the call returns
C31_Witness ==
    /\ Returning /\ Top.op = "updateState"
    /\ Top.arg = [type |-> "DATA_UPDATE", payload |-> nullObject]
    /\ Top.emitted = <<"ERROR_UPDATE">> /\ Top.recv[1] = <<"ERROR_UPDATE">>
    /\ state.error = "State update failed: " \o TypeError /\ state.data = DefaultData

\* a VALIDATION transition is assigned in this step
ValidationApplies ==
    /\ Len(stack) > 0 /\ Top.k = "us" /\ Top.pc = "apply"
    /\ Top.update.type = "VALIDATION_UPDATE"
    /\ stack' # stack

\* C32: validationResults never holds more than one outcome: it is empty when the
\* state is built, only a VALIDATION transition changes it while it is not rebuilt,
\* and right after every VALIDATION transition it holds exactly one outcome, the
\* validator's result for the dataset held.
C32_AtMostOneValidationResult ==
    /\ state.validationResults = <<>>
    /\ [](Len(state.validationResults) <= 1)
    /\ [][/\ (ValidationApplies =>
                  state'.validationResults = <<validateAllData(state.data)>>)
           /\ (state'.validationResults # state.validationResults =>
                  ValidationApplies)]_vars

C32_Witness ==
    /\ Returning /\ Top.op = "updateLabor"
    /\ Top.emitted[Len(Top.emitted)] = "LOADING_UPDATE(false)"
    /\ Has(Top.emitted, "VALIDATION_UPDATE")
    /\ state.validationResults = <<validateAllData(state.data)>>
    /\ state.data # DefaultData

\* the constructor or a public operation returns to the application
ReturningToApplication == Len(stack) = 1 /\ Returning

\* C33: whenever the constructor or a public operation returns to its outermost
\* caller, isLoading is false, whichever path the operation took and whatever calls
\* its subscribers made meanwhile.
C33_NotLoadingOnReturn == ReturningToApplication => ~state.isLoading

C33_Witness ==
    /\ ReturningToApplication /\ Top.op = "updateLabor"
    /\ Top.failed = {"compute"}
    /\ reentries > 0
    /\ Has(Top.emitted, "LOADING_UPDATE(true)")
    /\ ~state.isLoading

\* C34: whenever a public operation returns, the dataset held in the state is the
\* dataset of the engine the container holds, also after an operation that ended in
\* an ERROR transition.
C34_StateMatchesEngine == Returning => state.data = financeEngine.data

\* the derived results are those of the dataset held
Fresh ==
    /\ state.computationResult = EngineCompute([financeEngine EXCEPT !.data = state.data])
    /\ state.validationResults = <<validateAllData(state.data)>>

\* C35: whenever a public operation returns with error = null and a dataset is held,
\* computationResult is the engine's result for that dataset and validationResults
\* holds the whole-dataset validator's outcome for it.
C35_DerivedResultsFresh ==
    (Returning /\ state.error = null /\ state.data # nullObject) => Fresh

\* callback cb was in the list when the operation on top was entered, no unsubscribe
\* call removed it since, and it is in the list now
StillRegistered(cb) ==
    /\ Has(Top.subs0, cb)
    /\ cb \notin Top.unsubscribed
    /\ Has(subscribers, cb)

\* C36: when callbacks call unsubscribe functions during the fan-out of a transition,
\* every callback that stays registered is still invoked for that transition: at the
\* return of an operation of one transition no such callback was left out.
C36_UnsubscribeSkipsNobody ==
    ReturningFromOne =>
        \A cb \in SubIds : StillRegistered(cb) => Len(Top.recv[cb]) = 1

\* notifySubscribers calls the next callback in this step
InvokesNext ==
    /\ Len(stack) > 0 /\ Top.k = "us" /\ Top.pc = "notify"
    /\ Len(stack') = Len(stack) + 1

\* no unsubscribe function was called during the operations in flight, so every
\* callback is where it was in the list when their fan-outs began
NoUnsubscribe == \A j \in DOMAIN stack : stack[j].k = "op" => stack[j].unsubscribed = {}

\* the fan-outs in flight below the one on top have already called the callback at
\* position i of the list
AlreadyNotified(i) ==
    \A j \in 1..(Len(stack) - 1) :
        (stack[j].k = "us" /\ stack[j].pc = "notify") => i < stack[j].i

\* C37: when callbacks call operations from inside notifications, no callback is
\* notified of a transition of the nested operation before it was notified of the
\* outer transition being fanned out, and the state passed with a notification is the
\* state right after the transition it announces, so it holds what that transition
\* assigned.
C37_NotificationsInOrder ==
    [][InvokesNext =>
         /\ ApplyUpdate(state, Top.update) = state
         /\ NoUnsubscribe => AlreadyNotified(Top.i)]_vars

---------------------------------------------------------------------------
(* useFinanceState: the subscription of a mounted component *)

\* a hook that may pass a function that is registered already
AnyFunction(cb) == TRUE

\* (newState) => { setState(newState) }: every run of the effect creates a function
\* object of its own, which therefore is not in the list
FreshClosure(cb) == \A j \in DOMAIN subscribers : subscribers[j] # cb

\* useEffect(() => { unsubscribeRef.current = stateManager.subscribe(...) }, []): the
\* effect of a component that mounts
Mount ==
    \E cb \in SubIds :
      /\ FreshClosure(cb)
      /\ Len(registry.of) < MaxRegistrations
      /\ Subscribe(cb)
      /\ registry' = [of |-> Append(registry.of, cb),
                      entries |-> Append(registry.entries, Len(registry.of) + 1),
                      calls |-> Append(registry.calls, 0)]

\* the cleanup of the effect, run once when the component unmounts: it calls the
\* function unsubscribeRef holds, the one its effect stored
Unmount(r) ==
    /\ r \in DOMAIN registry.of
    /\ registry.calls[r] = 0
    /\ UnsubscribeCall(r)

\* components that mount and unmount, between and during notifications, and an
\* application that calls clearError
NextHooks ==
    \/ Machinery
    \/ NotifySubscribers
    \/ Mount
    \/ \E r \in 1..MaxRegistrations : Unmount(r)
    \/ CallbackReturns
    \/ clearError

SpecHooks == Init /\ [][NextHooks]_vars

\* the effect numbered r has run and its cleanup has not
Mounted(r) == r \in DOMAIN registry.of /\ registry.calls[r] = 0

\* the positions of the list that hold the entry made by effect r
EntriesOf(r) == {j \in DOMAIN subscribers : registry.entries[j] = r}

\* C38: whatever the sequence of mounts and unmounts, the list holds exactly one entry
\* made by each mounted hook instance, holding that instance's callback, and no entry
\* made by an unmounted one: an unmount removes the instance's own entry and no other.
C38_OneSubscriptionPerMountedHook ==
    /\ \A r \in DOMAIN registry.of :
          /\ Cardinality(EntriesOf(r)) = IF Mounted(r) THEN 1 ELSE 0
          /\ Mounted(r) =>
                Cardinality({j \in DOMAIN subscribers : subscribers[j] = registry.of[r]}) = 1
    /\ \A j \in DOMAIN subscribers :
          \E r \in DOMAIN registry.of : Mounted(r) /\ subscribers[j] = registry.of[r]

C38_Witness ==
    /\ registry.calls = <<1, 0, 0>>
    /\ registry.entries = <<2, 3>>
    /\ subscribers = <<registry.of[2], registry.of[3]>>
    /\ registry.of[3] = registry.of[1]
    /\ InCallback

---------------------------------------------------------------------------
(* getStateManager: the container shared by the hook instances *)

\* let globalStateManager: StateManager | null = null, and the number of StateManager
\* objects constructed so far (history)
NoManager ==
    [retained |-> nullObject, copy |-> nullObject,
     globalStateManager |-> nullObject, constructions |-> 0]

\* the module of the hook is loaded and no container exists yet: the variables of the
\* container hold what its constructor will start from
InitSession ==
    /\ state = getInitialState
    /\ financeEngine = NewEngine
    /\ localStorage = NoStorage
    /\ subscribers = <<>>
    /\ validationCache = EmptyMap
    /\ stack = <<>>
    /\ reentries = 0
    /\ failures = 0
    /\ lastCycle = NoCycle
    /\ escaped = "none"
    /\ registry = NoRegistry
    /\ now = Epoch
    /\ client = NoManager

\* a test that never finds a container
NeverHeld(manager) == FALSE

\* !globalStateManager is false: the variable holds an object
Held(manager) == manager # nullObject

GetFrame == [k |-> "get", pc |-> "test", built |-> FALSE, result |-> nullObject]

\* a hook instance calls getStateManager() (initial state, effect, render)
getStateManager ==
    /\ Len(stack) = 0
    /\ stack' = <<GetFrame>>
    /\ UNCHANGED <<state, financeEngine, localStorage, subscribers, validationCache,
                   reentries, failures, lastCycle, escaped, registry, now, client>>

\* if (!globalStateManager) { ... new StateManager() ... }: the constructor starts on
\* a new object with fields of its own
getStateManagerTests ==
    /\ Len(stack) > 0 /\ Top.k = "get" /\ Top.pc = "test"
    /\ IF Held(client.globalStateManager)
       THEN /\ stack' = Below \o <<[Top EXCEPT !.pc = "ret",
                                                !.result = client.globalStateManager]>>
            /\ UNCHANGED <<state, financeEngine, subscribers, validationCache, lastCycle,
                           client>>
       ELSE /\ client.constructions < MaxInstances
            /\ state' = getInitialState
            /\ financeEngine' = NewEngine
            /\ subscribers' = <<>>
            /\ validationCache' = EmptyMap
            /\ lastCycle' = NoCycle
            /\ client' = [client EXCEPT !.constructions = @ + 1]
            /\ stack' = Below \o <<[Top EXCEPT !.pc = "assign", !.built = TRUE]>>
                               \o <<[OpFrame("constructor", <<>>, "init") EXCEPT
                                       !.subs0 = <<>>,
                                       !.entry = [data |-> nullObject,
                                                  scenarios |-> EmptyMap,
                                                  currentScenario |-> "base"]]>>
    /\ UNCHANGED <<localStorage, reentries, failures, escaped, registry, now>>

\* globalStateManager = <the object constructed>
getStateManagerAssigns ==
    /\ Len(stack) > 0 /\ Top.k = "get" /\ Top.pc = "assign"
    /\ client' = [client EXCEPT !.globalStateManager = [instance |-> client.constructions]]
    /\ stack' = Below \o <<[Top EXCEPT !.pc = "ret",
                                        !.result = [instance |-> client.constructions]]>>
    /\ UNCHANGED <<state, financeEngine, localStorage, subscribers, validationCache,
                   reentries, failures, lastCycle, escaped, registry, now>>

\* return globalStateManager
getStateManagerReturns ==
    /\ Len(stack) > 0 /\ Top.k = "get" /\ Top.pc = "ret"
    /\ stack' = Below
    /\ UNCHANGED <<state, financeEngine, localStorage, subscribers, validationCache,
                   reentries, failures, lastCycle, escaped, registry, now, client>>

\* the actions of the hook call the operation on the container getStateManager returned
OnManager(Operation) == Held(client.globalStateManager) /\ Operation

\* hook instances that get the container and call reset, clearError and
\* setCurrentScenario on it
NextSession ==
    \/ Machinery
    \/ getStateManager
    \/ getStateManagerTests
    \/ getStateManagerAssigns
    \/ getStateManagerReturns
    \/ OnManager(reset)
    \/ OnManager(clearError)
    \/ OnManager(setCurrentScenario)

SpecSession == InitSession /\ [][NextSession]_vars

\* getStateManager is about to return
GetReturns == Len(stack) > 0 /\ Top.k = "get" /\ Top.pc = "ret"

\* C39: at most one StateManager is constructed in a session, by the first call of
\* getStateManager; every call returns that object, and once the variable holds it,
\* nothing replaces it or constructs another, reset() included.
C39_OneStateManager ==
    /\ [](/\ client.constructions <= 1
          /\ GetReturns => /\ Top.result = [instance |-> 1]
                           /\ client.globalStateManager = [instance |-> 1])
    /\ [][Held(client.globalStateManager) =>
            /\ client'.globalStateManager = client.globalStateManager
            /\ client'.constructions = client.constructions]_vars

C39_Witness ==
    /\ GetReturns /\ ~Top.built
    /\ Top.result = [instance |-> 1]
    /\ client.constructions = 1
    /\ state.error = "Reset failed: " \o Thrown

====
